---------------------------- MODULE Spec2Model ----------------------------
(***************************************************************************)
(* Receipt OCR API: the transcript-to-structured-data engine               *)
(* (api/receipt_parser.py, class ReceiptParser) and the /scan handler of   *)
(* api/app.py that calls it.                                               *)
(*                                                                         *)
(* A character is its Unicode code point (a natural number), a string is   *)
(* a sequence of characters.  The regular expressions of the source are    *)
(* operators over such sequences, with the character ranges of the source  *)
(* (a-z, 0-9, U+3041..U+3093, ...) as integer ranges.                      *)
(*                                                                         *)
(* parse() reads the transcript once, line by line.  The model draws the   *)
(* transcript one line per loop iteration from a set of lines, so that a    *)
(* run of the loop ranges over every transcript of at most MaxLines lines  *)
(* of that set.                                                            *)
(***************************************************************************)
EXTENDS Integers, Sequences, FiniteSets

VARIABLES
    pc,            \* "idle" | "loop" | "line" | "parsed" | "responded"
    n,             \* number of transcript lines the loop of parse() has consumed
    line,          \* parse(): line, the current line after line.strip()
    cur,           \* parse(): the price located on the current line (LocatePrice)
    items,         \* parse(): items
    total_amount,  \* parse(): total_amount (None when not set)
    all_prices,    \* parse(): all_prices
    item_src,      \* history: item_src[i] is the line items[i] was made from
    total_src,     \* history: "none" | "declared" | "inferred"
    response       \* what scan_receipt answered last (NoResponse before)

vars == <<pc, n, line, cur, items, total_amount, all_prices, item_src, total_src, response>>

(***************************************************************************)
(* Bounds of the model.                                                    *)
(***************************************************************************)
MaxLines == 3

(***************************************************************************)
(* Characters.                                                             *)
(***************************************************************************)
None      == -1        \* Python None of total_amount (prices are >= 10)
Space     == 32
Percent   == 37        \* %
Comma     == 44
Slash     == 47        \* /
Backslash == 92
Yen       == 165       \* U+00A5
FullYen   == 65509     \* U+FFE5
Kuten     == 12290     \* U+3002 ideographic full stop
Kei       == 36605     \* U+8EFD, the reduced-tax-rate mark
En        == 20870     \* U+5186, the unit suffix
Bullseye  == 9678      \* U+25CE
AtSign    == 64
Circle    == 9675      \* U+25CB

Min(S) == CHOOSE x \in S : \A y \in S : x <= y
Max(S) == CHOOSE x \in S : \A y \in S : x >= y

Between(c, lo, hi) == lo <= c /\ c <= hi

\* str.isspace / the regex class \s, over the Basic Multilingual Plane
IsSpace(c) ==
    \/ Between(c, 9, 13) \/ Between(c, 28, 32) \/ c \in {133, 160, 5760}
    \/ Between(c, 8192, 8202) \/ c \in {8232, 8233, 8239, 8287, 12288}

\* [0-9]
IsAsciiDigit(c) == Between(c, 48, 57)

\* the regex class \d on str patterns: the ASCII and the fullwidth digits
\* (U+FF10..U+FF19); int() reads both
IsDigit(c) == Between(c, 48, 57) \/ Between(c, 65296, 65305)

DigitVal(c) == IF Between(c, 48, 57) THEN c - 48 ELSE c - 65296

\* one of the classes of  [a-zA-Z0-9 U+3041-U+3093 U+30A1-U+30F6 U+30FC U+4E00-U+9FAF]
IsScript(c) ==
    \/ Between(c, 97, 122) \/ Between(c, 65, 90) \/ Between(c, 48, 57)
    \/ Between(c, 12353, 12435) \/ Between(c, 12449, 12534) \/ c = 12540
    \/ Between(c, 19968, 40879)

\* the regex class \w: letters, digits and the underscore
IsWord(c) ==
    \/ Between(c, 97, 122) \/ Between(c, 65, 90) \/ Between(c, 48, 57) \/ c = 95
    \/ Between(c, 12353, 12438) \/ Between(c, 12449, 12538) \/ c = 12540
    \/ Between(c, 19968, 40959) \/ Between(c, 65296, 65305)

\* re.search of a literal pattern
Contains(s, pat) ==
    \E i \in 1..(Len(s) - Len(pat) + 1) : SubSeq(s, i, i + Len(pat) - 1) = pat

HasChar(s, c) == \E i \in 1..Len(s) : s[i] = c

\* str.strip(): leading and trailing whitespace removed
strip(s) ==
    LET keep == {i \in 1..Len(s) : ~IsSpace(s[i])}
    IN  IF keep = {} THEN <<>> ELSE SubSeq(s, Min(keep), Max(keep))

\* int() of a string of digits
RECURSIVE ToInt(_)
ToInt(s) ==
    IF s = <<>> THEN 0
    ELSE 10 * ToInt(SubSeq(s, 1, Len(s) - 1)) + DigitVal(s[Len(s)])

IsInt(s) == s # <<>> /\ \A i \in 1..Len(s) : IsDigit(s[i])

\* str(): the decimal digits of a natural number
RECURSIVE ToStr(_)
ToStr(k) ==
    IF k < 10 THEN <<48 + k>> ELSE Append(ToStr(k \div 10), 48 + (k % 10))


(***************************************************************************)
(* ReceiptParser.__init__: the two compiled patterns.                      *)
(***************************************************************************)
IsMarker(c) == c \in {Yen, FullYen, Backslash, Percent}
IsSuffix(c) == c \in {Slash, Backslash, Kei, En}

\* first index >= i of s that holds no whitespace (Len(s)+1 when none)
SkipSpaces(s, i) ==
    LET rest == {j \in i..Len(s) : ~IsSpace(s[j])}
    IN  IF rest = {} THEN Len(s) + 1 ELSE Min(rest)

\* length of the run of digits of s that starts at index i
DigitRun(s, i) ==
    LET rest == {j \in i..Len(s) : ~IsDigit(s[j])}
    IN  (IF rest = {} THEN Len(s) + 1 ELSE Min(rest)) - i

NoMatch == [ok |-> FALSE, start |-> 0, ds |-> 0, de |-> 0, stop |-> 0]

\* price_pattern  [marker]\s*(\d{2,5})([/\\ U+8EFD U+5186]?)  matched at index p:
\* start is the marker's index, ds..de the digits of group 1, stop the index of
\* the last character matched (the suffix of group 2 when there is one).
price_pattern_match(s, p) ==
    LET q   == SkipSpaces(s, p + 1)
        run == DigitRun(s, q)
        k   == IF run > 5 THEN 5 ELSE run
        de  == q + k - 1
    IN  IF IsMarker(s[p]) /\ k >= 2
        THEN [ok |-> TRUE, start |-> p, ds |-> q, de |-> de,
              stop |-> IF de + 1 <= Len(s) /\ IsSuffix(s[de + 1])
                       THEN de + 1 ELSE de]
        ELSE NoMatch

\* price_pattern.finditer(s) from index p on: the non-overlapping matches,
\* leftmost first
RECURSIVE price_pattern_scan(_, _)
price_pattern_scan(s, p) ==
    IF p > Len(s) THEN <<>>
    ELSE LET m == price_pattern_match(s, p)
         IN  IF m.ok THEN <<m>> \o price_pattern_scan(s, m.stop + 1)
             ELSE price_pattern_scan(s, p + 1)

\* a variant that falls back on a run of 2 to 6 digits at the end of the line
\* when no currency marker introduces a price
price_pattern_finditer_or_trailing(s) ==
    LET found == price_pattern_scan(s, 1)
        head  == {i \in 1..Len(s) : ~IsDigit(s[i])}
        first == IF head = {} THEN 1 ELSE Max(head) + 1
        run   == Len(s) - first + 1
    IN  IF found = <<>> /\ 2 <= run /\ run <= 6
        THEN << [ok |-> TRUE, start |-> first, ds |-> first, de |-> Len(s),
                 stop |-> Len(s)] >>
        ELSE found

price_pattern_finditer(s) == price_pattern_scan(s, 1)

\* total_pattern: one of seven literal alternatives
TotalKeywords ==
    { <<21512, 35336>>          \* U+5408 U+8A08  "goukei", total
    , <<23567, 35336>>          \* U+5C0F U+8A08  "shoukei", subtotal
    , <<35336>>                 \* U+8A08         "kei"
    , <<12362, 36023, 19978>>   \* U+304A U+8CB7 U+4E0A  "o-kaiage"
    , <<36023, 19978>>          \* U+8CB7 U+4E0A  "kaiage"
    , <<35328, 21313>>          \* U+8A00 U+5341  (misreading of U+8A08)
    , <<26360, 21313>>          \* U+66F8 U+5341  (misreading of U+8A08)
    }

total_pattern_search(s) == \E kw \in TotalKeywords : Contains(s, kw)

(***************************************************************************)
(* EXCLUDE_PATTERNS.  The literal patterns, then the eight that are not    *)
(* literal.                                                                *)
(***************************************************************************)
ExcludeLiterals ==
    { <<23550, 35937>>, <<28040, 36027, 31246>>, <<31246, 31561>>
    , <<20869, 41>>, <<31246, 36796>>, <<23612, 23550>>
    , <<20132, 36890, 31995>>, <<12510, 12493>>, <<25903, 25173>>
    , <<12459, 12540, 12489>>, <<30058, 21495>>, <<27531, 39640>>
    , <<20132, 39640>>, <<36890, 27849>>, <<36890, 31995>>
    , <<12524, 12472>>, <<38936, 21454>>, <<30331, 37682, 30058, 21495>>
    , <<38651, 35441>>
    , <<70, 97, 109, 105, 108, 121, 77, 97, 114, 116>>
    , <<70, 97, 105, 109, 105, 108, 108, 121>>
    , <<12463, 12540, 12509, 12531>>, <<81, 82>>, <<12462, 12501, 12488>>
    , <<12450, 12503, 12522>>, <<12509, 12452, 12531, 12488>>
    , <<12501, 12449, 12511, 12510>>, <<12506, 12452>>
    , <<28040, 26126>>, <<32005, 20102>>
    , <<22120, 36996>>, <<38291, 36611>>, <<28783, 20523>>, <<26032, 31378>>
    , <<32340>>, <<36996, 36611>>
    }

\* \d+ followed by the character c  (\d+ U+5E74, \d+ U+6708, \d+ U+65E5)
DigitsThen(s, c) == \E i \in 1..(Len(s) - 1) : IsDigit(s[i]) /\ s[i + 1] = c

\* \d+:\d+
ClockTime(s) ==
    \E i \in 1..(Len(s) - 2) : IsDigit(s[i]) /\ s[i + 1] = 58 /\ IsDigit(s[i + 2])

\* [0-9]{4,}
LongDigitRun(s) ==
    \E i \in 1..(Len(s) - 3) : \A j \in i..(i + 3) : IsAsciiDigit(s[j])

\* a .* b  for characters a and the literal b  (U+53F2 .* U+534A U+65EC)
ThenLater(s, a, b) ==
    \E i \in 1..Len(s) : s[i] = a /\ Contains(SubSeq(s, i + 1, Len(s)), b)

\* a \s* U+3002 \s* b  (U+5B88 .. U+8A00 and U+75C5 .. U+53CE)
AroundKuten(s, a, b) ==
    \E i \in 1..Len(s) :
        /\ s[i] = a
        /\ LET j == SkipSpaces(s, i + 1)
           IN  /\ j <= Len(s)
               /\ s[j] = Kuten
               /\ LET k == SkipSpaces(s, j + 1)
                  IN  k <= Len(s) /\ s[k] = b

ExcludePatternSearch(s) ==
    \/ \E pat \in ExcludeLiterals : Contains(s, pat)
    \/ ThenLater(s, 21490, <<21322, 26092>>)
    \/ DigitsThen(s, 24180) \/ DigitsThen(s, 26376) \/ DigitsThen(s, 26085)
    \/ ClockTime(s)
    \/ LongDigitRun(s)
    \/ AroundKuten(s, 23432, 35328)
    \/ AroundKuten(s, 30149, 21454)

\* ReceiptParser._should_exclude
should_exclude(product_name, full_line) ==
    \/ ExcludePatternSearch(product_name) \/ ExcludePatternSearch(full_line)
    \/ Len(product_name) < 2
    \/ (product_name # <<>> /\ \A i \in 1..Len(product_name) : ~IsScript(product_name[i]))
    \/ product_name \in {<<Kei>>, <<Bullseye>>, <<AtSign>>, <<Circle>>}

\* the characters name.strip(...) removes at both ends
IsStripChar(c) ==
    c \in {32, 9, 10, 13, 12, 11, Kuten, 12289, 65292, 65294, Comma, 46, 58, 65306, 59, 65307}

\* [ U+3002 U+3001 U+FF0C U+FF0E , . ]
IsTrailingMark(c) == c \in {Kuten, 12289, 65292, 65294, Comma, 46}

\* the class a leading run of which is removed: [^\w U+25CE @ kana kanji]
IsLeadingJunk(c) == ~(IsWord(c) \/ c \in {Bullseye, AtSign} \/ IsScript(c))

\* the positions of s whose character is not in the class `drop`
StripKeep(s) == {i \in 1..Len(s) : ~IsStripChar(s[i])}
JunkKeep(s) == {i \in 1..Len(s) : ~IsLeadingJunk(s[i])}
MarkKeep(s) == {i \in 1..Len(s) : ~IsTrailingMark(s[i])}

\* s from the first position of keep on: s without a leading run
DropLeading(s, keep) ==
    IF keep = {} THEN <<>> ELSE SubSeq(s, Min(keep), Len(s))

\* s up to the last position of keep: s without a trailing run
DropTrailing(s, keep) ==
    IF keep = {} THEN <<>> ELSE SubSeq(s, 1, Max(keep))

NotSpace(c) == ~IsSpace(c)

\* name.strip(chars)
StripChars(s) == DropTrailing(DropLeading(s, StripKeep(s)), StripKeep(DropLeading(s, StripKeep(s))))

\* ReceiptParser._clean_product_name
clean_product_name(name) ==
    LET b == SelectSeq(StripChars(name), NotSpace)
        c == DropLeading(b, JunkKeep(b))
    IN  DropTrailing(c, MarkKeep(c))

(***************************************************************************)
(* ReceiptParser._correct_ocr_price                                        *)
(***************************************************************************)
\* the table `replacements`
Replacement(c) ==
    CASE c = Slash       -> 55     \* '/' -> '7'
      [] c \in {108, 73} -> 49     \* 'l', 'I' -> '1'
      [] c \in {66, 98}  -> 56     \* 'B', 'b' -> '8'
      [] c \in {79, 111} -> 48     \* 'O', 'o' -> '0'
      [] c \in {83, 115} -> 53     \* 'S', 's' -> '5'
      [] c \in {90, 122} -> 50     \* 'Z', 'z' -> '2'
      [] OTHER           -> c

\* pattern 1: a two-digit 50..99 gets a leading 1 unless the context holds a
\* slash or a backslash
PrependApplies(num, context) ==
    50 <= num /\ num <= 99 /\ ~HasChar(context, Slash) /\ ~HasChar(context, Backslash)

\* pattern 2: a two-digit 10..49 with a slash, backslash or U+8EFD in the
\* context gets a trailing 7 when the original string held a slash or backslash
AppendApplies(num, context, original) ==
    /\ 10 <= num /\ num <= 49
    /\ (HasChar(context, Slash) \/ HasChar(context, Backslash) \/ HasChar(context, Kei))
    /\ (HasChar(original, Slash) \/ HasChar(original, Backslash))

correct_ocr_price(price_str, context) ==
    LET replaced == [i \in 1..Len(price_str) |-> Replacement(price_str[i])]
        changed  == replaced # price_str
    IN  IF Len(replaced) = 2 /\ IsInt(replaced)
        THEN LET num == ToInt(replaced)
             IN  IF PrependApplies(num, context)
                 THEN [str |-> <<49>> \o replaced, corrected |-> TRUE]
                 ELSE IF AppendApplies(num, context, price_str)
                 THEN [str |-> Append(replaced, 55), corrected |-> TRUE]
                 ELSE [str |-> replaced, corrected |-> changed]
        ELSE [str |-> replaced, corrected |-> changed]

(***************************************************************************)
(* ReceiptParser.parse: one iteration of the loop over the lines.          *)
(***************************************************************************)
\* the suffix rule: a '/' in group 2 appends a 7 to the digits of group 1
AppendSeven(price_str, suffix) ==
    IF suffix # <<>> /\ HasChar(suffix, Slash) THEN Append(price_str, 55) ELSE price_str

NotLocated ==
    [found |-> FALSE, start |-> 0, stop |-> 0, token |-> <<>>, suffix |-> <<>>,
     context |-> <<>>, extended |-> <<>>, price_str |-> <<>>, price |-> None]

\* The price of a stripped line l: the last match of price_pattern (from
\* index start to index stop), its digits (token), its suffix, the context
\* handed to _correct_ocr_price, the digits
\* after the suffix rule (extended) and after correction (price_str), and
\* int(price_str) (None when int() raises).
LocatePrice(l) ==
    LET price_matches == price_pattern_finditer(l)
    IN  IF price_matches = <<>> THEN NotLocated
        ELSE LET m        == price_matches[Len(price_matches)]
                 token    == SubSeq(l, m.ds, m.de)
                 suffix   == SubSeq(l, m.de + 1, m.stop)
                 context  == SubSeq(l, m.start, Min({Len(l), m.stop + 5}))
                 extended == AppendSeven(token, suffix)
                 fixed    == correct_ocr_price(extended, context).str
             IN  [found |-> TRUE, start |-> m.start, stop |-> m.stop, token |-> token,
                  suffix |-> suffix, context |-> context, extended |-> extended,
                  price_str |-> fixed,
                  price |-> IF IsInt(fixed) THEN ToInt(fixed) ELSE None]

\* 10 <= price <= 10000
PriceInRange(price) == 10 <= price /\ price <= 10000

\* line[:price_match.start()].strip()
ProductNameOf(l, loc) == strip(SubSeq(l, 1, loc.start - 1))

\* the line announces a total
IsTotalLine(l, product_name) ==
    total_pattern_search(l) \/ total_pattern_search(product_name)

\* a variant without the `continue`: the total line goes on to become an item
TotalDeclarationAndItem(st, product_name, price) ==
    [st EXCEPT !.total_amount = IF price >= 100 THEN price ELSE @,
               !.items = Append(@, [name |-> product_name, price |-> price]),
               !.all_prices = Append(@, price)]

\* a total line: the price becomes the total when it is at least 100, and the
\* line is left (continue) without touching the items
TotalDeclaration(st, product_name, price) ==
    [st EXCEPT !.total_amount = IF price >= 100 THEN price ELSE @]

\* a variant that looks at the item added last only
IsDuplicateOfLast(its, product_name, price) ==
    its # <<>> /\ its[Len(its)].name = product_name /\ its[Len(its)].price = price

\* any(item['name'] == product_name and item['price'] == price for item in items)
IsDuplicate(its, product_name, price) ==
    \E i \in 1..Len(its) : its[i].name = product_name /\ its[i].price = price

\* an accepted line: the cleaned name is kept when it has two characters or
\* more and its (name, price) is new
AddItem(st, cleaned, price) ==
    IF Len(cleaned) >= 2 /\ ~IsDuplicate(st.items, cleaned, price)
    THEN [st EXCEPT !.items = Append(@, [name |-> cleaned, price |-> price]),
                    !.all_prices = Append(@, price)]
    ELSE st

\* the first half of the body of `for line in lines`: a line of fewer than
\* three characters, or without a match of price_pattern, is skipped
ScanLine(l) == IF Len(l) < 3 THEN NotLocated ELSE LocatePrice(l)

\* the second half of the body, from the locals st = [items, total_amount,
\* all_prices], the line and the price located on it to the locals after the
\* iteration
ProcessLine(st, l, loc) ==
    IF ~loc.found \/ loc.price = None \/ ~PriceInRange(loc.price) THEN st
    ELSE LET product_name == ProductNameOf(l, loc)
         IN  IF IsTotalLine(l, product_name)
             THEN TotalDeclaration(st, product_name, loc.price)
             ELSE IF should_exclude(product_name, l) THEN st
             ELSE AddItem(st, clean_product_name(product_name), loc.price)

(***************************************************************************)
(* ReceiptParser.parse: the total when no line declared one.               *)
(***************************************************************************)
RECURSIVE Sum(_)
Sum(s) == IF s = <<>> THEN 0 ELSE s[1] + Sum(Tail(s))

MaxOf(s) == Max({s[i] : i \in 1..Len(s)})

\* a variant with > for >=
IsDominantStrict(prices) ==
    Len(prices) > 1 /\ 5 * MaxOf(prices) > 4 * Sum(prices)

\* len(all_prices) > 1 and max_price >= calculated_total * 0.8.  The product
\* is a double; for the sums a maximum of at most 10000 can reach 80% of
\* (up to 12500) it compares with max_price as 4 * sum / 5 does.
IsDominant(prices) ==
    Len(prices) > 1 /\ 5 * MaxOf(prices) >= 4 * Sum(prices)

\* s restricted to the indices i with keep[i]
RECURSIVE Restrict(_, _)
Restrict(s, keep) ==
    IF s = <<>> THEN <<>>
    ELSE (IF keep[1] THEN <<s[1]>> ELSE <<>>) \o Restrict(Tail(s), Tail(keep))

\* the items the fallback leaves:  item['price'] != max_price
KeptByFallback(its, prices) ==
    IF IsDominant(prices)
    THEN [i \in 1..Len(its) |-> its[i].price # MaxOf(prices)]
    ELSE [i \in 1..Len(its) |-> TRUE]

\* `not total_amount` holds of None and of 0
FallbackApplies(st) ==
    (st.total_amount = None \/ st.total_amount = 0) /\ st.all_prices # <<>>

InferTotal(st) ==
    IF ~FallbackApplies(st) THEN st
    ELSE IF IsDominant(st.all_prices)
    THEN [st EXCEPT !.total_amount = MaxOf(st.all_prices),
                    !.items = Restrict(@, KeptByFallback(st.items, st.all_prices))]
    ELSE [st EXCEPT !.total_amount = Sum(st.all_prices)]

(***************************************************************************)
(* ReceiptParser.format_output                                             *)
(***************************************************************************)
RECURSIVE JoinParts(_)
JoinParts(parts) ==
    IF parts = <<>> THEN <<>>
    ELSE IF Len(parts) = 1 THEN parts[1]
    ELSE parts[1] \o <<Comma, Space>> \o JoinParts(Tail(parts))

format_output(its, total) ==
    LET itemParts == [i \in 1..Len(its) |->
                         its[i].name \o <<Space, Yen>> \o ToStr(its[i].price)]
        totalPart == IF total # None /\ total # 0
                     THEN << <<21512, 35336, Space, Yen>> \o ToStr(total) >>
                     ELSE <<>>
    IN  JoinParts(itemParts \o totalPart)

(***************************************************************************)
(* The transcript lines the OCR engine may hand over.                      *)
(***************************************************************************)
\* the ASCII digits of a price, from their values
Num(ds) == [i \in 1..Len(ds) |-> 48 + ds[i]]

Onigiri == <<12362, 12395, 12366, 12426>>   \* hiragana o-ni-gi-ri (rice ball)
Ocha    == <<12362, 33590>>                 \* o-cha (tea)
Bento   == <<24321, 24403>>                 \* ben-tou (lunch box)
Pan     == <<12497, 12531>>                 \* katakana pa-n (bread)
Mizu    == <<27700>>                        \* mizu (water), one character
Goukei  == <<21512, 35336>>                 \* gou-kei (total)
Zeikomi == <<31246, 36796>>                 \* zei-komi (tax included)
Kaado   == <<12459, 12540, 12489>>          \* katakana ka-a-do (card)

ItemLines ==
    { Onigiri \o <<Space, Yen>> \o Num(<<1, 5, 0>>)
    , Ocha \o <<Space, Yen>> \o Num(<<1, 0, 0>>)
    , Ocha \o <<Kuten, Yen>> \o Num(<<1, 0, 0>>)        \* same item, read with a full stop
    , Bento \o <<Space, Yen>> \o Num(<<4, 0, 0>>)
    , Bento \o <<Space, Yen>> \o Num(<<3, 5, 5>>)
    , Pan \o <<Space, Yen>> \o Num(<<3, 0>>)
    , Pan \o <<Space, Yen>> \o Num(<<1, 0, 0>>) \o <<Space, Yen>> \o Num(<<2, 0, 0>>)
    , <<Bullseye>> \o Pan \o <<Yen>> \o Num(<<1, 5, 0>>) \o <<En>>
    }

TotalLines ==
    { Goukei \o <<Space, Yen>> \o Num(<<3, 5, 5>>)
    , Goukei \o <<Space, Yen>> \o Num(<<1, 2, 0, 0, 0>>)
    , Goukei \o <<Space, Yen>> \o Num(<<3, 0>>)
    , Zeikomi \o Goukei \o <<Space, Yen>> \o Num(<<4, 0, 0>>)   \* total and noise keyword
    }

\* lines that exercise the price token rules
TokenLines ==
    { Pan \o <<Backslash>> \o Num(<<2, 4>>) \o <<Slash>>        \* "\24/"
    , Pan \o <<Space, Yen>> \o Num(<<8, 5>>)
    , Pan \o <<Space, FullYen>> \o Num(<<8, 5>>)
    , Pan \o <<Space, Percent>> \o Num(<<8, 5>>)
    , Pan \o <<Space, Backslash>> \o Num(<<8, 5>>)
    , Pan \o <<Space, Yen>> \o Num(<<8, 5>>) \o <<Slash>>
    , Pan \o <<Space, Yen>> \o Num(<<8, 5>>) \o <<Backslash>>
    , Pan \o <<Space, Yen>> \o Num(<<2, 4>>) \o <<Kei>>
    , Pan \o <<Space, Yen>> \o Num(<<1, 2, 3>>) \o <<Slash>>
    , Pan \o <<Space, Yen>> \o Num(<<1, 2, 3, 4, 5, 6>>)
    , Onigiri \o <<Space>> \o Num(<<1, 5, 0>>)                  \* no currency marker
    }

\* lines whose name or text is to be rejected
NoiseLines ==
    { <<>>
    , Num(<<1, 2>>) \o <<Space, Yen>> \o Num(<<1, 5, 0>>)       \* a numeric name
    , Mizu \o <<Space, Yen>> \o Num(<<1, 0, 8>>)                \* a one-character name
    , <<97, Comma, Space, Yen>> \o Num(<<1, 5, 0>>)             \* "a, " cleans to "a"
    , <<Bullseye, Bullseye, Space, Yen>> \o Num(<<1, 5, 0>>)    \* marker glyphs only
    , Kaado \o <<Space, Yen>> \o Num(<<5, 0, 0>>)               \* payment keyword
    , Bento \o <<Space, Yen>> \o Num(<<1, 2, 0, 0>>)            \* four digits in the line
    }

\* whole receipts: items, totals and a payment line
ReceiptLines == ItemLines \cup TotalLines \cup {Kaado \o <<Space, Yen>> \o Num(<<5, 0, 0>>)}

\* single lines for the rules of the price token and of the name
RuleLines == TokenLines \cup NoiseLines

(***************************************************************************)
(* The state machine: the /scan handler of app.py around parse().          *)
(***************************************************************************)
NoResponse == [status |-> 0]

Locals == [items |-> items, total_amount |-> total_amount, all_prices |-> all_prices]

Init ==
    /\ pc = "idle"
    /\ n = 0
    /\ line = <<>>
    /\ cur = NotLocated
    /\ items = <<>>
    /\ total_amount = None
    /\ all_prices = <<>>
    /\ item_src = <<>>
    /\ total_src = "none"
    /\ response = NoResponse

\* scan_receipt up to the call of parser.parse, and the first statements of
\* parse: the locals are fresh for every request
ScanReceipt ==
    /\ pc \in {"idle", "responded"}
    /\ pc' = "loop"
    /\ n' = 0
    /\ line' = <<>>
    /\ cur' = NotLocated
    /\ items' = <<>>
    /\ total_amount' = None
    /\ all_prices' = <<>>
    /\ item_src' = <<>>
    /\ total_src' = "none"
    /\ response' = NoResponse

\* scan_receipt when reading the image or the OCR raises: HTTP 500
ScanError ==
    /\ pc \in {"idle", "responded"}
    /\ pc' = "responded"
    /\ response' = [status |-> 500]
    /\ n' = 0
    /\ line' = <<>>
    /\ cur' = NotLocated
    /\ items' = <<>>
    /\ total_amount' = None
    /\ all_prices' = <<>>
    /\ item_src' = <<>>
    /\ total_src' = "none"

\* an iteration of `for line in lines` on the transcript's next line raw:
\* strip, the length test, the price located and corrected
ReadLine(raw) ==
    /\ pc = "loop"
    /\ n < MaxLines
    /\ pc' = "line"
    /\ n' = n + 1
    /\ line' = strip(raw)
    /\ cur' = ScanLine(strip(raw))
    /\ UNCHANGED <<items, total_amount, all_prices, item_src, total_src, response>>

\* the rest of the iteration: range test, total declaration, exclusion, the
\* cleaned name and the item
ClassifyLine ==
    /\ pc = "line"
    /\ pc' = "loop"
    /\ items' = ProcessLine(Locals, line, cur).items
    /\ total_amount' = ProcessLine(Locals, line, cur).total_amount
    /\ all_prices' = ProcessLine(Locals, line, cur).all_prices
    /\ item_src' = IF Len(items') > Len(items) THEN Append(item_src, line)
                   ELSE item_src
    /\ total_src' = IF total_amount' # total_amount THEN "declared" ELSE total_src
    /\ UNCHANGED <<n, line, cur, response>>

\* the end of the transcript: the fallback total, and parse returns
ReturnResult ==
    /\ pc = "loop"
    /\ pc' = "parsed"
    /\ LET st == InferTotal(Locals)
       IN  /\ items' = st.items
           /\ total_amount' = st.total_amount
           /\ item_src' = IF FallbackApplies(Locals)
                          THEN Restrict(item_src, KeptByFallback(items, all_prices))
                          ELSE item_src
           /\ total_src' = IF FallbackApplies(Locals) THEN "inferred" ELSE total_src
    /\ UNCHANGED <<n, line, cur, all_prices, response>>

\* scan_receipt after parse: format_output and the JSON response
Respond ==
    /\ pc = "parsed"
    /\ pc' = "responded"
    /\ response' = [status |-> 200, success |-> TRUE, items |-> items,
                    total |-> total_amount,
                    formatted |-> format_output(items, total_amount)]
    /\ UNCHANGED <<n, line, cur, items, total_amount, all_prices, item_src, total_src>>

Next(lines) ==
    \/ ScanReceipt
    \/ ScanError
    \/ \E raw \in lines : ReadLine(raw)
    \/ ClassifyLine
    \/ ReturnResult
    \/ Respond

\* transcripts of receipt lines
Spec == Init /\ [][Next(ReceiptLines)]_vars

\* transcripts of the lines that exercise the token and name rules
SpecTokens == Init /\ [][Next(RuleLines)]_vars

(***************************************************************************)
(* Properties.                                                             *)
(***************************************************************************)
ItemPrices == [i \in 1..Len(items) |-> items[i].price]

\* a line has been classified and no other has been read since
LineDone == pc = "loop" /\ n >= 1

\* the name the current line would give an item
CurrentName == clean_product_name(ProductNameOf(line, cur))

HasKey(its, name, price) ==
    \E i \in 1..Len(its) : its[i].name = name /\ its[i].price = price

NoDuplicateKeys(its) ==
    \A i, j \in 1..Len(its) :
        (its[i].name = its[j].name /\ its[i].price = its[j].price) => i = j

RECURSIVE IsSubsequence(_, _)
IsSubsequence(a, b) ==
    IF a = <<>> THEN TRUE
    ELSE IF b = <<>> THEN FALSE
    ELSE IF a[1] = b[1] THEN IsSubsequence(Tail(a), Tail(b))
    ELSE IsSubsequence(a, Tail(b))

\* no index of l starts a match of price_pattern
NoMarkerToken(l) == \A p \in 1..Len(l) : ~price_pattern_match(l, p).ok

\* the length of the run of digits that ends l
TrailingDigitRun(l) ==
    LET head == {i \in 1..Len(l) : ~IsDigit(l[i])}
    IN  IF head = {} THEN Len(l) ELSE Len(l) - Max(head)

\* the text of l before the run of digits that ends it
NameBeforeTrailingDigits(l) == strip(SubSeq(l, 1, Len(l) - TrailingDigitRun(l)))

\* l ends in 2 to 6 digits of a value in the item range, after a name that
\* _should_exclude and _clean_product_name accept, and announces no total
TrailingPriceCandidate(l) ==
    /\ TrailingDigitRun(l) \in 2..6
    /\ PriceInRange(ToInt(SubSeq(l, Len(l) - TrailingDigitRun(l) + 1, Len(l))))
    /\ ~total_pattern_search(l)
    /\ ~should_exclude(NameBeforeTrailingDigits(l), NameBeforeTrailingDigits(l))
    /\ Len(clean_product_name(NameBeforeTrailingDigits(l))) >= 2

\* a slash or a backslash follows the token inside the context window
SlashAfterToken ==
    \E i \in (cur.stop - Len(cur.suffix) + 1)..Min({Len(line), cur.stop + 5}) :
        line[i] \in {Slash, Backslash}

\* the token got a 7 appended
SevenAppended ==
    cur.extended = Append(cur.token, 55) \/ cur.price_str = Append(cur.token, 55)

\* neither a letter, a digit nor a kana or kanji: a bullet, a circle, a dash
IsDecorative(c) == ~IsScript(c) /\ ~IsWord(c)

\* a name the specification rejects: purely numeric, one character, or
\* decorative glyphs only
RejectedName(nm) ==
    \/ IsInt(nm)
    \/ Len(nm) = 1
    \/ (nm # <<>> /\ \A i \in 1..Len(nm) : IsDecorative(nm[i]))

\* C1: every returned item has 10 <= price <= 10000, and a returned total that
\* is not null is >= 100, declared or inferred.
C1_PriceBounds ==
    pc = "parsed" =>
        /\ \A i \in 1..Len(items) : 10 <= items[i].price /\ items[i].price <= 10000
        /\ total_amount # None => total_amount >= 100

\* C2: when no declaration line gave a total and at least one item was
\* accepted, with S the sum and M the maximum of the accepted prices: if there
\* is more than one item and M >= 80% of S, the returned total is M and no
\* returned item is priced M; otherwise the total is S and every accepted item
\* stays.
C2_FallbackTotal ==
    [][ (pc = "loop" /\ pc' = "parsed" /\ total_src = "none" /\ items # <<>>) =>
            IF Len(items) > 1 /\ 5 * MaxOf(ItemPrices) >= 4 * Sum(ItemPrices)
            THEN /\ total_amount' = MaxOf(ItemPrices)
                 /\ \A j \in 1..Len(items') : items'[j].price # MaxOf(ItemPrices)
            ELSE /\ total_amount' = Sum(ItemPrices)
                 /\ items' = items ]_vars

\* a receipt of several items whose largest price was taken for the total
C2_DominantInferred ==
    /\ pc = "parsed"
    /\ total_src = "inferred"
    /\ Len(all_prices) > 1
    /\ total_amount = MaxOf(all_prices)
    /\ Len(items) = Len(all_prices) - 1

\* C3 as stated: when the total comes from a declaration line, no returned
\* item has a price equal to that total.
C3_TotalExclusion ==
    (pc = "parsed" /\ total_src = "declared") =>
        \A i \in 1..Len(items) : items[i].price # total_amount

\* C3 amended: when the total comes from a declaration line, no returned item
\* that was made from a line matching a total keyword has a price equal to
\* that total; an item of another line stays even when its price equals it.
C3_TotalLineNotAnItem ==
    (pc = "parsed" /\ total_src = "declared") =>
        \A i \in 1..Len(items) :
            ~(total_pattern_search(item_src[i]) /\ items[i].price = total_amount)

\* a declared total next to an item of the same price
C3_ItemPricedAsTotal ==
    /\ pc = "parsed"
    /\ total_src = "declared"
    /\ \E i \in 1..Len(items) : items[i].price = total_amount

\* C4: at every point of the scan and in the result no two items share
\* (name, price), and the items stand in the order of their first accepted
\* occurrence: a line adds at most its own item, at the end and only under a
\* new key, and the fallback only removes.
C4_Dedup ==
    /\ [](NoDuplicateKeys(items))
    /\ [][ /\ pc = "line" =>
                \/ items' = items
                \/ /\ Len(items') = Len(items) + 1
                   /\ SubSeq(items', 1, Len(items)) = items
                   /\ items'[Len(items')] = [name |-> CurrentName, price |-> cur.price]
                   /\ ~HasKey(items, CurrentName, cur.price)
           /\ (pc = "loop" /\ pc' = "parsed") => IsSubsequence(items', items) ]_vars

\* a second read of an item, under a differently written line, left one item
C4_RepeatCollapsed ==
    /\ LineDone
    /\ n = 2
    /\ cur.found
    /\ Len(items) = 1
    /\ items[1] = [name |-> CurrentName, price |-> cur.price]
    /\ item_src[1] # line

\* C5: success is true iff the items are non-empty or a total was resolved.
C5_SuccessFlag ==
    (pc = "responded" /\ response.status = 200) =>
        (response.success <=> (response.items # <<>> \/ response.total # None))

\* C6: a line with a total keyword on which a price is located never produces
\* an item, and its price becomes the total when it is >= 100.
C6_TotalPriority ==
    (LineDone /\ cur.found /\ total_pattern_search(line)) =>
        /\ \A i \in 1..Len(items) : item_src[i] # line
        /\ cur.price >= 100 => total_amount = cur.price

\* C7: a two-digit token of value 50..99 with no slash-like marker after it in
\* its context is priced 100 + value whatever the currency marker, and the
\* leading 1 never goes on a token that got a 7 appended.
C7_TwoDigitMagnitude ==
    cur.found =>
        /\ (Len(cur.token) = 2 /\ ToInt(cur.token) \in 50..99 /\ ~SlashAfterToken)
               => cur.price = 100 + ToInt(cur.token)
        /\ cur.extended # cur.token => cur.price_str = cur.extended

\* C8: a 7 is appended exactly when a slash immediately follows a two-digit
\* token; a token of three digits or more is not extended.
C8_TrailingSlash ==
    cur.found =>
        (SevenAppended <=> (Len(cur.token) = 2 /\ cur.suffix = <<Slash>>))

\* C9: a line whose name normalizes to a purely numeric string, to one
\* character or to decorative glyphs produces no item, and every item has a
\* name of at least two characters that is not purely numeric.
C9_NameRejection ==
    /\ \A i \in 1..Len(items) : Len(items[i].name) >= 2 /\ ~IsInt(items[i].name)
    /\ (LineDone /\ cur.found /\ RejectedName(CurrentName)) =>
           \A i \in 1..Len(items) : item_src[i] # line

=============================================================================
